---- MODULE Spec2Model ----
(***************************************************************************)
(* Model of main.py of oil-analysis: the loader (load_and_filter_data),    *)
(* the statistics, the range filter, the stability filter, the visualizer  *)
(* and the linear pipeline of main().                                      *)
(*                                                                         *)
(* Numbers.  Python floats are modelled by exact rationals                 *)
(* [nan, num, den] (den > 0); NaN is the record with nan = TRUE.  Every    *)
(* comparison with NaN is FALSE, as in IEEE-754.  A standard deviation is  *)
(* the square root of a rational and is carried as that rational (the      *)
(* variance); mean - std and mean + std are carried as "surds"             *)
(* q + sign * sqrt(var) and compared exactly by squaring.  Floating-point  *)
(* rounding is outside the model.                                          *)
(***************************************************************************)
EXTENDS Integers, Sequences, FiniteSets, TLC

VARIABLES source, df, percentage, stats, top_exporters, stable_exporters,
          printed, files, pc

vars == <<source, df, percentage, stats, top_exporters, stable_exporters,
          printed, files, pc>>

(***************************************************************************)
(* Bounds of the model.                                                    *)
(***************************************************************************)
MaxRows == 3

Values == {50, 90, 95, 100}

Percentages == {0, 10, 50, 100}

(***************************************************************************)
(* Numbers.                                                                *)
(***************************************************************************)
Rat(n, d) == [nan |-> FALSE, num |-> n, den |-> d]

NaN == [nan |-> TRUE, num |-> 0, den |-> 1]

Abs(x) == IF x < 0 THEN -x ELSE x

GE(a, b) == ~a.nan /\ ~b.nan /\ a.num * b.den >= b.num * a.den

LE(a, b) == GE(b, a)

Sub(a, b) ==
    IF a.nan \/ b.nan THEN NaN
    ELSE Rat(a.num * b.den - b.num * a.den, a.den * b.den)

AbsRat(a) == IF a.nan THEN NaN ELSE Rat(Abs(a.num), a.den)

\* q + sign * sqrt(var): mean -/+ std
Surd(q, sign, var) ==
    [nan |-> q.nan \/ var.nan, q |-> q, sign |-> sign, var |-> var]

\* (v - q)^2 <= var, for rationals v, q, var
SqWithin(v, q, var) ==
    LET d == v.num * q.den - q.num * v.den
    IN  d * d * var.den <= var.num * (q.den * v.den) * (q.den * v.den)

\* v >= q - sqrt(var)  (the surd has sign -1)
GESurd(v, s) ==
    /\ ~v.nan /\ ~s.nan
    /\ \/ GE(v, s.q)
       \/ SqWithin(v, s.q, s.var)

\* v <= q + sqrt(var)  (the surd has sign +1)
LESurd(v, s) ==
    /\ ~v.nan /\ ~s.nan
    /\ \/ LE(v, s.q)
       \/ SqWithin(v, s.q, s.var)

(***************************************************************************)
(* Tables (DataFrames).  A row carries its index label, which filtering    *)
(* and sorting preserve.  None is the absent result.                       *)
(***************************************************************************)
SheetColumns == {"Country", "ISO 3", "Continent", "Trade Value"}

CountryNames == <<"A", "B", "C", "D", "E", "F">>

Table(cols, rs) == [none |-> FALSE, columns |-> cols, rows |-> rs]

None == [none |-> TRUE, columns |-> {}, rows |-> <<>>]

Range(s) == {s[i] : i \in 1..Len(s)}

TradeValues(d) == [i \in 1..Len(d.rows) |-> d.rows[i].TradeValue]

(***************************************************************************)
(* The source sheet.  A Trade Value cell is a number, a text or empty.     *)
(***************************************************************************)
Num(v) == [kind |-> "num", val |-> v, chars |-> <<>>]

Text(cs) == [kind |-> "text", val |-> 0, chars |-> cs]

Missing == [kind |-> "nan", val |-> 0, chars |-> <<>>]

Digits == {"0", "1", "2", "3", "4", "5", "6", "7", "8", "9"}

DigitVal(c) ==
    CASE c = "0" -> 0 [] c = "1" -> 1 [] c = "2" -> 2 [] c = "3" -> 3
      [] c = "4" -> 4 [] c = "5" -> 5 [] c = "6" -> 6 [] c = "7" -> 7
      [] c = "8" -> 8 [] c = "9" -> 9

RECURSIVE ParseDigits(_)
ParseDigits(cs) ==
    IF cs = <<>> THEN 0
    ELSE 10 * ParseDigits(SubSeq(cs, 1, Len(cs) - 1)) + DigitVal(cs[Len(cs)])

\* pd.to_numeric(..., errors='coerce') on one cell
to_numeric(cell) ==
    CASE cell.kind = "num" -> Rat(cell.val, 1)
      [] cell.kind = "text" ->
            IF cell.chars # <<>> /\ \A i \in 1..Len(cell.chars) : cell.chars[i] \in Digits
            THEN Rat(ParseDigits(cell.chars), 1)
            ELSE NaN
      [] cell.kind = "nan" -> NaN

\* the exception the body of the try block raises on this source, if any
Raised(src) ==
    IF ~src.file_exists THEN "FileNotFoundError"
    ELSE IF ~src.sheet_exists THEN "ValueError"
    ELSE IF ~src.readable THEN "BadZipFile"
    ELSE IF "Continent" \notin src.columns THEN "KeyError"
    ELSE IF "Trade Value" \notin src.columns THEN "KeyError"
    ELSE "none"

\* only `except FileNotFoundError`, the `except Exception` clause left out
CaughtFileNotFoundOnly(exc) == exc = "FileNotFoundError"

\* the except clauses: FileNotFoundError, then Exception (every error above
\* is a subclass of Exception)
Caught(exc) ==
    \/ exc = "FileNotFoundError"
    \/ exc \in {"ValueError", "BadZipFile", "KeyError"}

IsEurope(r) == r.Continent = "Europe"

Coerce(r) == [r EXCEPT !.TradeValue = to_numeric(r.TradeValue)]

NotNa(r) == ~r.TradeValue.nan

\* the dropna(subset=['Trade Value']) step left out
dropna_skipped(rs) == rs

dropna(rs) == SelectSeq(rs, NotNa)

\* the try block of load_and_filter_data
FilterEurope(src) ==
    LET europe   == SelectSeq(src.rows, IsEurope)
        coerced  == [i \in 1..Len(europe) |-> Coerce(europe[i])]
    IN  Table(src.columns, dropna(coerced))

load_and_filter_data(src) ==
    LET exc == Raised(src)
    IN  IF exc = "none" THEN [raised |-> FALSE, value |-> FilterEurope(src)]
        ELSE IF Caught(exc) THEN [raised |-> FALSE, value |-> None]
        ELSE [raised |-> TRUE, value |-> None]

(***************************************************************************)
(* Series aggregates (NaN skipped, as pandas does).  Trade Values are      *)
(* whole numbers: every value of the column has den = 1.                   *)
(***************************************************************************)
IsNumber(x) == ~x.nan

Valid(xs) == SelectSeq(xs, IsNumber)

RECURSIVE SumNum(_)
SumNum(xs) == IF xs = <<>> THEN 0 ELSE xs[1].num + SumNum(Tail(xs))

SeriesMax(xs) ==
    LET v == Valid(xs)
    IN  IF v = <<>> THEN NaN
        ELSE Rat(CHOOSE m \in {v[i].num : i \in 1..Len(v)} :
                    \A i \in 1..Len(v) : v[i].num <= m, 1)

SeriesMin(xs) ==
    LET v == Valid(xs)
    IN  IF v = <<>> THEN NaN
        ELSE Rat(CHOOSE m \in {v[i].num : i \in 1..Len(v)} :
                    \A i \in 1..Len(v) : v[i].num >= m, 1)

SeriesMean(xs) ==
    LET v == Valid(xs)
    IN  IF v = <<>> THEN NaN ELSE Rat(SumNum(v), Len(v))

RECURSIVE SumSqDev(_, _, _)
SumSqDev(xs, n, s) ==
    IF xs = <<>> THEN 0
    ELSE (n * xs[1].num - s) * (n * xs[1].num - s) + SumSqDev(Tail(xs), n, s)

\* population standard deviation (ddof = 0)
SeriesStdPopulation(xs) ==
    LET v == Valid(xs)
        n == Len(v)
    IN  IF n < 1 THEN NaN
        ELSE Rat(SumSqDev(v, n, SumNum(v)), n * n * n)

\* Series.std(): sample standard deviation (ddof = 1), carried as its square
\* sum((x - mean)^2) / (N - 1) = sum((N x - S)^2) / (N^2 (N - 1))
SeriesStd(xs) ==
    LET v == Valid(xs)
        n == Len(v)
    IN  IF n < 2 THEN NaN
        ELSE Rat(SumSqDev(v, n, SumNum(v)), n * n * (n - 1))

calculate_statistics(d) ==
    LET tv == TradeValues(d)
    IN  [mean  |-> SeriesMean(tv),
         std   |-> SeriesStd(tv),
         min   |-> SeriesMin(tv),
         max   |-> SeriesMax(tv),
         range |-> Sub(SeriesMax(tv), SeriesMin(tv))]

(***************************************************************************)
(* DataFrame.sort_values(by) with the default kind='quicksort', which is   *)
(* not a stable sort: the result is some ordering of the rows by the key,  *)
(* rows of equal key in any order.                                         *)
(***************************************************************************)
Perms(n) == {f \in [1..n -> 1..n] : \A i, j \in 1..n : f[i] = f[j] => i = j}

Ordered(a, b, ascending) == IF ascending THEN a <= b ELSE a >= b

\* the sort key of a row: its value in the column `by`; all deviations of
\* one table have the same denominator (its length)
Key(r, by) ==
    IF by = "Trade Value" THEN r.TradeValue.num ELSE r.Deviation_From_Mean.num

sort_values(rs, by, ascending) ==
    { [i \in 1..Len(rs) |-> rs[f[i]]] : f \in
        { g \in Perms(Len(rs)) :
            \A i, j \in 1..Len(rs) :
               i < j => Ordered(Key(rs[g[i]], by), Key(rs[g[j]], by), ascending) } }

(***************************************************************************)
(* Range filter.                                                           *)
(***************************************************************************)
\* max_value * (1 - percentage/100)
Threshold(max_value, p) ==
    IF max_value.nan THEN NaN
    ELSE Rat(max_value.num * (100 - p), max_value.den * 100)

\* `>` written for `>=`
InRangeStrict(r, threshold) ==
    GE(r.TradeValue, threshold) /\ ~LE(r.TradeValue, threshold)

InRange(r, threshold) == GE(r.TradeValue, threshold)

\* ascending=False left out
find_countries_in_range_ascending(d, p) ==
    LET max_value == SeriesMax(TradeValues(d))
        threshold == Threshold(max_value, p)
        kept      == SelectSeq(d.rows, LAMBDA r : InRange(r, threshold))
    IN  { Table(d.columns, s) : s \in sort_values(kept, "Trade Value", TRUE) }

find_countries_in_range(d, p) ==
    LET max_value == SeriesMax(TradeValues(d))
        threshold == Threshold(max_value, p)
        kept      == SelectSeq(d.rows, LAMBDA r : InRange(r, threshold))
    IN  { Table(d.columns, s) : s \in sort_values(kept, "Trade Value", FALSE) }

(***************************************************************************)
(* Stability filter.                                                       *)
(***************************************************************************)
\* `>` and `<` written for `>=` and `<=`
WithinStableRangeStrict(v, lower_bound, upper_bound) ==
    /\ ~v.nan /\ ~lower_bound.nan /\ ~upper_bound.nan
    /\ LET q   == lower_bound.q
           var == lower_bound.var
           d   == v.num * q.den - q.num * v.den
       IN  d * d * var.den < var.num * (q.den * v.den) * (q.den * v.den)

WithinStableRange(v, lower_bound, upper_bound) ==
    GESurd(v, lower_bound) /\ LESurd(v, upper_bound)

Annotate(r, mean_value, lower_bound, upper_bound) ==
    r @@ ("Deviation_From_Mean" :> AbsRat(Sub(r.TradeValue, mean_value)))
      @@ ("Within_Stable_Range" :>
             WithinStableRange(r.TradeValue, lower_bound, upper_bound))

\* df.copy() with the two columns added, before the sort
df_stable(d) ==
    LET mean_value  == SeriesMean(TradeValues(d))
        std_value   == SeriesStd(TradeValues(d))
        lower_bound == Surd(mean_value, -1, std_value)
        upper_bound == Surd(mean_value, 1, std_value)
    IN  Table(d.columns \cup {"Deviation_From_Mean", "Within_Stable_Range"},
              [i \in 1..Len(d.rows) |->
                  Annotate(d.rows[i], mean_value, lower_bound, upper_bound)])

IsStableRow(r) == r.Within_Stable_Range

\* only the in-range rows returned
identify_stable_exporters_in_range_only(d) ==
    { Table(df_stable(d).columns, s) :
        s \in sort_values(SelectSeq(df_stable(d).rows, IsStableRow), "Deviation_From_Mean", TRUE) }

\* sorted descending by deviation
identify_stable_exporters_descending(d) ==
    { Table(df_stable(d).columns, s) :
        s \in sort_values(df_stable(d).rows, "Deviation_From_Mean", FALSE) }

identify_stable_exporters(d) ==
    { Table(df_stable(d).columns, s) :
        s \in sort_values(df_stable(d).rows, "Deviation_From_Mean", TRUE) }

(***************************************************************************)
(* Visualizer: adds the billions column to the frame it was handed (no     *)
(* copy), then writes the three charts.                                    *)
(***************************************************************************)
Billion == 1000000000

AddBillions(r) ==
    ("Trade Value (Billions)" :> Rat(r.TradeValue.num, Billion)) @@ r

WithBillions(d) ==
    Table(d.columns \cup {"Trade Value (Billions)"},
          [i \in 1..Len(d.rows) |-> AddBillions(d.rows[i])])

ChartFiles == {"export_values_by_country.png",
               "export_values_distribution.png",
               "stability_analysis.png"}

(***************************************************************************)
(* Inputs.                                                                 *)
(***************************************************************************)
Continents == {"Europe", "Asia"}

Cells == {Num(95), Num(100), Text(<<"9", "0">>), Text(<<"n", "a">>), Missing}

SourceRow(i, continent, cell) ==
    [index |-> i - 1, Country |-> CountryNames[i], Continent |-> continent,
     TradeValue |-> cell]

Sheets ==
    UNION { { [i \in 1..n |-> SourceRow(i, f[i][1], f[i][2])] :
                f \in [1..n -> Continents \X Cells] } : n \in 0..MaxRows }

Source(fe, se, rd, cols, rs) ==
    [file_exists |-> fe, sheet_exists |-> se, readable |-> rd,
     columns |-> cols, rows |-> rs]

\* a well-formed workbook, and one of each load-time failure
Sources ==
    { Source(TRUE, TRUE, TRUE, SheetColumns, rs) : rs \in Sheets }
    \cup { Source(FALSE, FALSE, FALSE, {}, <<>>) }
    \cup { Source(TRUE, FALSE, TRUE, {}, <<>>) }
    \cup { Source(TRUE, TRUE, FALSE, {}, <<>>) }
    \cup { Source(TRUE, TRUE, TRUE, SheetColumns \ {"Continent"}, rs) : rs \in Sheets }
    \cup { Source(TRUE, TRUE, TRUE, SheetColumns \ {"Trade Value"}, rs) : rs \in Sheets }

\* the Tables the loader can hand on: European rows with numeric values
LoadedTables ==
    UNION { { Table(SheetColumns,
                    [i \in 1..n |-> SourceRow(i, "Europe", Rat(v[i], 1))]) :
                v \in [1..n -> Values] } : n \in 0..MaxRows }

NoStats == [mean |-> NaN, std |-> NaN, min |-> NaN, max |-> NaN, range |-> NaN]

(***************************************************************************)
(* main(): Loader, then Statistics, Range Filter, Stability Filter and     *)
(* Visualizer, each followed by its part of the console report.            *)
(***************************************************************************)
Init ==
    /\ source \in Sources
    /\ df = None
    /\ percentage = 10
    /\ stats = NoStats
    /\ top_exporters = None
    /\ stable_exporters = None
    /\ printed = {}
    /\ files = {}
    /\ pc = "load"

\* an empty Table guarded as well
StopsAfterLoadOrEmpty(d) == d.none \/ d.rows = <<>>

\* `if df is None: return`
StopsAfterLoad(d) == d.none

Load ==
    /\ pc = "load"
    /\ LET res == load_and_filter_data(source)
       IN  IF res.raised
           THEN /\ pc' = "raised"
                /\ df' = df
           ELSE /\ df' = res.value
                /\ pc' = IF StopsAfterLoad(res.value) THEN "returned" ELSE "stats"
    /\ UNCHANGED <<source, percentage, stats, top_exporters, stable_exporters,
                   printed, files>>

Statistics ==
    /\ pc = "stats"
    /\ stats' = calculate_statistics(df)
    /\ printed' = printed \cup {"Summary Statistics"}
    /\ pc' = "range"
    /\ UNCHANGED <<source, df, percentage, top_exporters, stable_exporters, files>>

TopExporters ==
    /\ pc = "range"
    /\ percentage' = 10
    /\ top_exporters' \in find_countries_in_range(df, 10)
    /\ printed' = printed \cup {"Top Exporters"}
    /\ pc' = "stable"
    /\ UNCHANGED <<source, df, stats, stable_exporters, files>>

\* the stability filter annotating the caller's frame (no df.copy())
StableExportersNoCopy ==
    /\ pc = "stable"
    /\ stable_exporters' \in identify_stable_exporters(df)
    /\ df' = df_stable(df)
    /\ printed' = printed \cup {"Stable Exporters"}
    /\ pc' = "viz"
    /\ UNCHANGED <<source, percentage, stats, top_exporters, files>>

StableExporters ==
    /\ pc = "stable"
    /\ stable_exporters' \in identify_stable_exporters(df)
    /\ printed' = printed \cup {"Stable Exporters"}
    /\ pc' = "viz"
    /\ UNCHANGED <<source, df, percentage, stats, top_exporters, files>>

\* create_visualizations(df): the frame is main's own df
Visualize ==
    /\ pc = "viz"
    /\ df' = WithBillions(df)
    /\ files' = files \cup ChartFiles
    /\ printed' = printed \cup {"Visualizations saved"}
    /\ pc' = "done"
    /\ UNCHANGED <<source, percentage, stats, top_exporters, stable_exporters>>

Next == Load \/ Statistics \/ TopExporters \/ StableExporters \/ Visualize

Spec == Init /\ [][Next]_vars

(***************************************************************************)
(* The filters as functions of any Table and any percentage.               *)
(***************************************************************************)
InitFn ==
    /\ source = Source(TRUE, TRUE, TRUE, SheetColumns, <<>>)
    /\ df \in LoadedTables
    /\ percentage \in Percentages
    /\ stats = NoStats
    /\ top_exporters = None
    /\ stable_exporters = None
    /\ printed = {}
    /\ files = {}
    /\ pc = "call"

CallStatistics ==
    /\ pc = "call"
    /\ stats' = calculate_statistics(df)
    /\ pc' = "calculate_statistics"
    /\ UNCHANGED <<source, df, percentage, top_exporters, stable_exporters,
                   printed, files>>

CallRange ==
    /\ pc = "call"
    /\ top_exporters' \in find_countries_in_range(df, percentage)
    /\ pc' = "find_countries_in_range"
    /\ UNCHANGED <<source, df, percentage, stats, stable_exporters, printed, files>>

CallStable ==
    /\ pc = "call"
    /\ stable_exporters' \in identify_stable_exporters(df)
    /\ pc' = "identify_stable_exporters"
    /\ UNCHANGED <<source, df, percentage, stats, top_exporters, printed, files>>

NextFn == CallStatistics \/ CallRange \/ CallStable

SpecFn == InitFn /\ [][NextFn]_vars

(***************************************************************************)
(* Properties.  The helpers below restate the arithmetic on the plain      *)
(* integers of the input Table, independently of the operators above.      *)
(***************************************************************************)
\* the number a source cell stands for; cells that are not numeric have none
IsNumericCell(cell) == cell \in {Num(v) : v \in Values} \cup {Text(<<"9", "0">>)}

CellNumber(cell) == IF cell = Text(<<"9", "0">>) THEN 90 ELSE cell.val

Survivors ==
    { i \in 1..Len(source.rows) :
        /\ source.rows[i].Continent = "Europe"
        /\ IsNumericCell(source.rows[i].TradeValue) }

LoadFails ==
    \/ ~source.file_exists
    \/ ~source.sheet_exists
    \/ ~source.readable
    \/ ~({"Continent", "Trade Value"} \subseteq source.columns)

Loaded == pc \in {"stats", "range", "stable", "viz", "done"}

InputValue(i) == df.rows[i].TradeValue.num

InputLen == Len(df.rows)

InputMax == CHOOSE m \in {InputValue(i) : i \in 1..InputLen} :
               \A i \in 1..InputLen : InputValue(i) <= m

InputSum == LET S[k \in 0..InputLen] == IF k = 0 THEN 0 ELSE S[k - 1] + InputValue(k)
            IN  S[InputLen]

\* N * (value - mean)
ScaledDev(v) == InputLen * v - InputSum

InputSumSq == LET Q[k \in 0..InputLen] ==
                     IF k = 0 THEN 0
                     ELSE Q[k - 1] + ScaledDev(InputValue(k)) * ScaledDev(InputValue(k))
              IN  Q[InputLen]

\* |value - mean| <= sample standard deviation, on integers
WithinOneStd(v) ==
    /\ InputLen >= 2
    /\ ScaledDev(v) * ScaledDev(v) * (InputLen - 1) <= InputSumSq

\* position of the row with this index label in the input Table
InputPos(r) == CHOOSE i \in 1..InputLen : df.rows[i].index = r.index

Restrict(r, fields) == [f \in fields |-> r[f]]

RowFields == {"index", "Country", "Continent", "TradeValue"}

RangeDone == pc = "find_countries_in_range"

StableDone == pc = "identify_stable_exporters"

\* C1: a successful load returns exactly the source rows whose Continent is
\* Europe and whose Trade Value is numeric, in source order, each with its
\* parsed number; no Trade Value past the loader is missing.
C1_LoaderKeepsEuropeanNumericRows ==
    Loaded =>
        /\ ~df.none
        /\ Len(df.rows) = Cardinality(Survivors)
        /\ \A k \in 1..Len(df.rows) :
              /\ df.rows[k].index + 1 \in Survivors
              /\ df.rows[k].Country = source.rows[df.rows[k].index + 1].Country
              /\ df.rows[k].Continent = "Europe"
              /\ df.rows[k].TradeValue =
                    Rat(CellNumber(source.rows[df.rows[k].index + 1].TradeValue), 1)
              /\ k < Len(df.rows) => df.rows[k].index < df.rows[k + 1].index

C1_Witness ==
    /\ pc = "stats"
    /\ Len(source.rows) = 3
    /\ source.rows[1].Continent = "Europe" /\ source.rows[1].TradeValue = Num(100)
    /\ source.rows[2].Continent = "Asia" /\ source.rows[2].TradeValue = Num(95)
    /\ source.rows[3].Continent = "Europe" /\ source.rows[3].TradeValue = Text(<<"n", "a">>)
    /\ Len(df.rows) = 1
    /\ df.rows[1].Country = "A"

\* C2: when the load fails (file, sheet or required column absent, or any
\* other read error) the loader returns None without raising and main stops:
\* nothing is computed, nothing is printed, no file is written.
C2_FailedLoadStopsTheRun ==
    LoadFails =>
        /\ pc \in {"load", "returned"}
        /\ df = None
        /\ stats = NoStats
        /\ top_exporters = None
        /\ stable_exporters = None
        /\ printed = {}
        /\ files = {}

C2_Witness ==
    /\ pc = "returned"
    /\ source.file_exists /\ source.sheet_exists /\ source.readable
    /\ "Continent" \notin source.columns
    /\ Len(source.rows) > 0
    /\ df = None

\* C3: a row of the input is in the output of the range filter exactly when
\* its value is >= max * (1 - percentage/100); the output holds input rows only.
C3_InRangeIffAtLeastThreshold ==
    RangeDone =>
        /\ \A i \in 1..InputLen :
              (df.rows[i] \in Range(top_exporters.rows))
                 <=> (InputValue(i) * 100 >= InputMax * (100 - percentage))
        /\ Range(top_exporters.rows) \subseteq Range(df.rows)

C3_Witness ==
    /\ RangeDone
    /\ percentage = 10
    /\ InputLen = 3
    /\ InputValue(1) = 100 /\ InputValue(2) = 95 /\ InputValue(3) = 50
    /\ Len(top_exporters.rows) = 2
    /\ top_exporters.rows[1].index = 0
    /\ top_exporters.rows[2].index = 1

\* C4 as claimed: the output of the range filter is sorted descending by
\* Trade Value and rows of equal value keep their input order.
C4_SortedDescendingAndStable ==
    RangeDone =>
        \A i, j \in 1..Len(top_exporters.rows) :
            i < j =>
               \/ top_exporters.rows[i].TradeValue.num > top_exporters.rows[j].TradeValue.num
               \/ /\ top_exporters.rows[i].TradeValue.num = top_exporters.rows[j].TradeValue.num
                  /\ InputPos(top_exporters.rows[i]) < InputPos(top_exporters.rows[j])

\* C4 (amended): the output of the range filter is sorted descending by
\* Trade Value; the order of rows of equal value is not determined.
C4_SortedDescending ==
    RangeDone =>
        \A i \in 1..Len(top_exporters.rows) - 1 :
            top_exporters.rows[i].TradeValue.num >= top_exporters.rows[i + 1].TradeValue.num

C4_Witness ==
    /\ RangeDone
    /\ InputLen = 3
    /\ InputValue(1) = 95 /\ InputValue(2) = 100 /\ InputValue(3) = 100
    /\ Len(top_exporters.rows) = 3
    /\ top_exporters.rows[1].index = 2
    /\ top_exporters.rows[2].index = 1
    /\ top_exporters.rows[3].index = 0

\* C5: Within_Stable_Range of an output row is true exactly when
\* mean - std <= value <= mean + std, bounds included, with the sample
\* standard deviation (undefined, hence never satisfied, for a single row).
C5_WithinStableRangeIffWithinOneStd ==
    StableDone =>
        \A k \in 1..Len(stable_exporters.rows) :
            stable_exporters.rows[k].Within_Stable_Range
               <=> WithinOneStd(stable_exporters.rows[k].TradeValue.num)

C5_Witness ==
    /\ StableDone
    /\ InputLen = 3
    /\ InputValue(1) = 90 /\ InputValue(2) = 95 /\ InputValue(3) = 100
    /\ \A k \in 1..3 : stable_exporters.rows[k].Within_Stable_Range

\* C6: the stability filter returns every input row, in range or not: the
\* output has the length of the input and its rows, annotations aside, are
\* the input rows, each once.
C6_StabilityFilterKeepsAllRows ==
    StableDone =>
        /\ Len(stable_exporters.rows) = InputLen
        /\ \A i \in 1..InputLen :
              Cardinality({k \in 1..Len(stable_exporters.rows) :
                 Restrict(stable_exporters.rows[k], RowFields) = df.rows[i]}) = 1

C6_Witness ==
    /\ StableDone
    /\ InputLen = 3
    /\ Len(stable_exporters.rows) = 3
    /\ \E k \in 1..3 : ~stable_exporters.rows[k].Within_Stable_Range
    /\ \E k \in 1..3 : stable_exporters.rows[k].Within_Stable_Range

\* C7 as claimed: the output of the stability filter is sorted ascending by
\* Deviation_From_Mean and rows of equal deviation keep their input order.
C7_SortedByDeviationAndStable ==
    StableDone =>
        \A i, j \in 1..Len(stable_exporters.rows) :
            i < j =>
               \/ Abs(ScaledDev(stable_exporters.rows[i].TradeValue.num))
                     < Abs(ScaledDev(stable_exporters.rows[j].TradeValue.num))
               \/ /\ Abs(ScaledDev(stable_exporters.rows[i].TradeValue.num))
                        = Abs(ScaledDev(stable_exporters.rows[j].TradeValue.num))
                  /\ InputPos(stable_exporters.rows[i]) < InputPos(stable_exporters.rows[j])

\* C7 (amended): the output of the stability filter is sorted ascending by
\* Deviation_From_Mean = |Trade Value - mean|; the order of rows of equal
\* deviation is not determined.
C7_SortedByDeviation ==
    StableDone =>
        /\ \A k \in 1..Len(stable_exporters.rows) :
              stable_exporters.rows[k].Deviation_From_Mean =
                 Rat(Abs(ScaledDev(stable_exporters.rows[k].TradeValue.num)), InputLen)
        /\ \A k \in 1..Len(stable_exporters.rows) - 1 :
              Abs(ScaledDev(stable_exporters.rows[k].TradeValue.num))
                 <= Abs(ScaledDev(stable_exporters.rows[k + 1].TradeValue.num))

C7_Witness ==
    /\ StableDone
    /\ InputLen = 3
    /\ InputValue(1) = 100 /\ InputValue(2) = 95 /\ InputValue(3) = 90
    /\ stable_exporters.rows[1].index = 1
    /\ stable_exporters.rows[2].index = 2
    /\ stable_exporters.rows[3].index = 0

NoSurvivor == ~LoadFails /\ Survivors = {}

AllReports == {"Summary Statistics", "Top Exporters", "Stable Exporters",
               "Visualizations saved"}

\* C8 as claimed: no step of main after the load changes main's Table: after
\* each of the four components returns, df has the rows, the columns and
\* the row order it had before the call.
C8_NoComponentMutatesCallersTable ==
    [][(pc \in {"stats", "range", "stable", "viz"}) => (df' = df)]_vars

\* C8 (amended): calculate_statistics, find_countries_in_range and
\* identify_stable_exporters leave main's Table as it was; create_visualizations
\* adds the column Trade Value (Billions) to main's Table in place and leaves
\* its rows, their order and every other column as they were.
C8_OnlyVisualizerAddsBillionsColumn ==
    [][ /\ (pc \in {"stats", "range", "stable"}) => (df' = df)
        /\ (pc = "viz") =>
              /\ df'.none = df.none
              /\ df'.columns = df.columns \cup {"Trade Value (Billions)"}
              /\ Len(df'.rows) = Len(df.rows)
              /\ \A i \in 1..Len(df.rows) :
                    /\ DOMAIN df'.rows[i] = DOMAIN df.rows[i] \cup {"Trade Value (Billions)"}
                    /\ Restrict(df'.rows[i], DOMAIN df.rows[i]) = df.rows[i] ]_vars

C8_Witness ==
    /\ pc = "done"
    /\ Len(df.rows) = 2
    /\ "Trade Value (Billions)" \in df.columns
    /\ "Deviation_From_Mean" \notin df.columns
    /\ Len(stable_exporters.rows) = 2
    /\ stable_exporters.rows[1].index = 1
    /\ df.rows[1].index = 0

\* C9: a failed load is guarded and stops the run, an empty load is not: when
\* the sheet loads and no row survives the filter, main never returns early,
\* runs the four components on the empty Table, and the Statistics Summary
\* it computes has no value in any field.
C9_EmptyLoadIsNotGuarded ==
    /\ pc = "returned" => (LoadFails /\ df = None)
    /\ (NoSurvivor /\ pc # "load") =>
          /\ Loaded
          /\ ~df.none /\ df.rows = <<>>
          /\ pc \in {"range", "stable", "viz", "done"} =>
                /\ "Summary Statistics" \in printed
                /\ stats.mean.nan /\ stats.std.nan /\ stats.min.nan
                /\ stats.max.nan /\ stats.range.nan
          /\ pc \in {"stable", "viz", "done"} =>
                ("Top Exporters" \in printed /\ top_exporters = Table(SheetColumns, <<>>))
          /\ pc \in {"viz", "done"} =>
                ("Stable Exporters" \in printed /\ ~stable_exporters.none
                    /\ stable_exporters.rows = <<>>)
          /\ pc = "done" => (printed = AllReports /\ files = ChartFiles)

C9_Witness ==
    /\ pc = "done"
    /\ NoSurvivor
    /\ Len(source.rows) = 2
    /\ source.rows[1].Continent = "Europe"
    /\ df.rows = <<>>
    /\ files = ChartFiles
    /\ stats.mean.nan

\* C10: for a Table of at least two rows the first row of the output of the
\* stability filter, the one closest to the mean, is within the stable range.
C10_ClosestRowIsStable ==
    (StableDone /\ InputLen >= 2) =>
        stable_exporters.rows[1].Within_Stable_Range

C10_Witness ==
    /\ StableDone
    /\ InputLen = 3
    /\ InputValue(1) = 50 /\ InputValue(2) = 50 /\ InputValue(3) = 50
    /\ stable_exporters.rows[1].Within_Stable_Range
    /\ stable_exporters.rows[1].Deviation_From_Mean = Rat(0, 3)

====
